---- MODULE Spec2Model ----
(***************************************************************************)
(* Model of examples/thread_proof.py: one run of main().                   *)
(* Strings are sequences of symbols.  In a FETCH metadata line the three   *)
(* keys "UID", "X-GM-THRID" and "X-GM-MSGID" are single symbols (no key    *)
(* occurs inside another one, and "UID" shares no letter sequence with the *)
(* other symbols), every other symbol is one character.                    *)
(***************************************************************************)
EXTENDS Integers, Sequences, FiniteSets

VARIABLES env, pc, outcome, exit_status, ops, out,
          limit, select_status, select_data, num_messages, start, msg_range,
          fetch_status, data, i, messages,
          thread_extraction_success, thread_extraction_failed,
          threads, no_thread, g, multi_message_threads

vars == <<env, pc, outcome, exit_status, ops, out,
          limit, select_status, select_data, num_messages, start, msg_range,
          fetch_status, data, i, messages,
          thread_extraction_success, thread_extraction_failed,
          threads, no_thread, g, multi_message_threads>>

\* ---------------------------------------------------------------- bounds
MaxLimit == 1
MaxN == 2
MaxItems == 3
MaxMetaLen == 6

\* ------------------------------------------------------- values and text
NoneVal == <<"<None>">>
Unknown == <<"?">>
DefaultLimitText == <<"5", "0">>
DigitChars == <<"0", "1", "2", "3", "4", "5", "6", "7", "8", "9">>

IsDigit(c) == \E k \in 1..Len(DigitChars) : DigitChars[k] = c
DigitVal(c) == (CHOOSE k \in 1..Len(DigitChars) : DigitChars[k] = c) - 1

\* mutant: only None is falsy, the empty string counts as present
Truthy_NotNone(v) == v # NoneVal

\* Python truthiness of an optional string: None and "" are falsy.
Truthy(v) == v # NoneVal /\ v # <<>>

Max(a, b) == IF a >= b THEN a ELSE b

RECURSIVE DecNat(_)
DecNat(n) == IF n < 10 THEN <<DigitChars[n + 1]>>
             ELSE DecNat(n \div 10) \o <<DigitChars[(n % 10) + 1]>>

\* str(n) as the f-string of line 60 formats it
DecStr(n) == IF n < 0 THEN <<"-">> \o DecNat(-n) ELSE DecNat(n)

RECURSIVE DigitsValue(_, _)
DigitsValue(s, acc) == IF s = <<>> THEN acc
                       ELSE DigitsValue(Tail(s), acc * 10 + DigitVal(Head(s)))

AllDigits(s) == s # <<>> /\ \A k \in 1..Len(s) : IsDigit(s[k])

\* int(text): optional sign, then one or more digits; anything else raises
\* ValueError (ok = FALSE).
ParseInt(s) ==
    LET signed == s # <<>> /\ Head(s) \in {"+", "-"}
        body   == IF signed THEN Tail(s) ELSE s
    IN  IF ~AllDigits(body) THEN [ok |-> FALSE, val |-> 0]
        ELSE [ok |-> TRUE,
              val |-> IF signed /\ Head(s) = "-" THEN 0 - DigitsValue(body, 0)
                      ELSE DigitsValue(body, 0)]

\* os.environ.get(name, default)
EnvGet(value, default) == IF value = NoneVal THEN default ELSE value

\* ------------------------------------------------- regular-expression scan
BadByte == "\\xff"
ReplacementChar == "U+FFFD"

\* bytes.decode("utf-8", errors="replace")
Decode(bytes) == [k \in DOMAIN bytes |->
                     IF bytes[k] = BadByte THEN ReplacementChar ELSE bytes[k]]

\* mutant: the group is (\d) instead of (\d+)
DigitRun_Single(s, p) == <<s[p]>>

RECURSIVE DigitRun(_, _)
DigitRun(s, p) == IF p > Len(s) \/ ~IsDigit(s[p]) THEN <<>>
                  ELSE <<s[p]>> \o DigitRun(s, p + 1)

\* the pattern  KEY (\d+)  matches at position p
MatchAt(key, s, p) == /\ p + 2 <= Len(s)
                      /\ s[p] = key
                      /\ s[p + 1] = " "
                      /\ IsDigit(s[p + 2])

RECURSIVE SearchFrom(_, _, _)
SearchFrom(key, s, p) ==
    IF p > Len(s) THEN NoneVal
    ELSE IF MatchAt(key, s, p) THEN DigitRun(s, p + 2)
    ELSE SearchFrom(key, s, p + 1)

\* re.search(KEY (\d+), s): group(1) of the leftmost match, NoneVal if none
re_search(key, s) == SearchFrom(key, s, 1)

\* ----------------------------------------------------------- header block
NotBytes == <<<<"<not bytes>">>>>

RECURSIVE HeaderGet(_, _, _)
HeaderGet(headers, name, default) ==
    IF headers = <<>> THEN default
    ELSE IF Head(headers)[1] = name THEN Head(headers)[2]
    ELSE HeaderGet(Tail(headers), name, default)

\* ------------------------------------------------------------ input spaces
Usernames == {NoneVal, <<>>, <<"u">>}
Passwords == {NoneVal, <<>>, <<"p">>}
LimitTexts == {DecStr(n) : n \in (0 - MaxLimit)..MaxLimit}
              \cup {NoneVal, <<"a">>, <<>>}
MessageCounts == (0..MaxN) \cup {10, 200}
Statuses == {"OK", "NO"}

MetaSymbols == {"UID", "X-GM-THRID", "X-GM-MSGID", " ", "1", "2"}
AllMeta == UNION {[1..n -> MetaSymbols] : n \in 0..MaxMetaLen}

HeadersA == <<<<"Subject", <<"hi">>>>, <<"From", <<"a@b">>>>>>
MetaA1 == <<"1", " ", "X-GM-THRID", " ", "1", " ", "X-GM-MSGID", " ", "1", "1",
            " ", "UID", " ", "1">>
MetaA2 == <<"2", " ", "UID", " ", "2", " ", "X-GM-THRID", " ", "1">>
MetaB  == <<"X-GM-THRID", " ", "2", BadByte, "UID", " ", "1", "2">>
MetaNoThread == <<"UID", " ", "2", "1", " ", "X-GM-THRID", " ", "X-GM-MSGID", " ", "2">>

Unit(m, b) == [tuple |-> TRUE, metadata |-> m, body |-> b]
\* a reply item that is not a (metadata, body) pair, such as the closing b")"
Closer == [tuple |-> FALSE, metadata |-> <<>>, body |-> NotBytes]

Items == {Unit(MetaA1, HeadersA), Unit(MetaA2, NotBytes), Unit(MetaB, <<>>),
          Unit(MetaNoThread, HeadersA), Closer}
Replies == UNION {[1..n -> Items] : n \in 0..MaxItems}

\* ------------------------------------------------------------------ state
Init ==
    /\ env \in [IMAP_USERNAME : Usernames, IMAP_PASSWORD : Passwords,
                LIMIT : LimitTexts]
    /\ pc = "config"
    /\ outcome = "running"
    /\ exit_status = -1
    /\ ops = <<>>
    /\ out = <<>>
    /\ limit = 0
    /\ select_status = "none"
    /\ select_data = <<>>
    /\ num_messages = 0
    /\ start = 0
    /\ msg_range = <<>>
    /\ fetch_status = "none"
    /\ data = <<>>
    /\ i = 0
    /\ messages = <<>>
    /\ thread_extraction_success = 0
    /\ thread_extraction_failed = 0
    /\ threads = <<>>
    /\ no_thread = <<>>
    /\ g = 0
    /\ multi_message_threads = <<>>

\* mutant: the status of the reply is never looked at
NotOK_Ignored(status) == FALSE

\* lines 46 and 71: status != "OK"
NotOK(status) == status # "OK"

\* mutant: the empty-mailbox test never fires for a count of 0
IsEmptyMailbox_Negative(n) == n < 0

\* line 53
IsEmptyMailbox(n) == n = 0

\* mutant: every reply item is unpacked as a (metadata, body) pair
IsTuple_Always(item) == TRUE

\* line 84: isinstance(item, tuple)
IsTuple(item) == item.tuple

Return(code) == /\ pc' = "done"
                /\ outcome' = "returned"
                /\ exit_status' = code

\* an uncaught exception ends the interpreter with exit status 1
Raise == /\ pc' = "done"
         /\ outcome' = "raised"
         /\ exit_status' = 1

Emit(label, value) == out' = Append(out, <<label, value>>)

\* lines 21-25: read the environment; int() of the LIMIT text may raise
ReadConfig ==
    /\ pc = "config"
    /\ LET parsed == ParseInt(EnvGet(env.LIMIT, DefaultLimitText))
       IN  IF parsed.ok
           THEN /\ limit' = parsed.val
                /\ pc' = "credentials"
                /\ UNCHANGED <<outcome, exit_status>>
           ELSE /\ Raise
                /\ UNCHANGED limit
    /\ UNCHANGED <<env, ops, out, select_status, select_data, num_messages,
                   start, msg_range, fetch_status, data, i, messages,
                   thread_extraction_success, thread_extraction_failed,
                   threads, no_thread, g, multi_message_threads>>

\* lines 27-35
CheckCredentials ==
    /\ pc = "credentials"
    /\ IF ~Truthy(env.IMAP_USERNAME) \/ ~Truthy(env.IMAP_PASSWORD)
       THEN /\ Emit("Error: IMAP_USERNAME and IMAP_PASSWORD required", 0)
            /\ Return(1)
       ELSE /\ pc' = "connect"
            /\ UNCHANGED <<out, outcome, exit_status>>
    /\ UNCHANGED <<env, ops, limit, select_status, select_data, num_messages,
                   start, msg_range, fetch_status, data, i, messages,
                   thread_extraction_success, thread_extraction_failed,
                   threads, no_thread, g, multi_message_threads>>

\* line 38: imaplib.IMAP4_SSL(domain); raises when the connection fails
Connect ==
    /\ pc = "connect"
    /\ ops' = Append(ops, "connect")
    /\ \E connected \in BOOLEAN :
          IF connected
          THEN /\ pc' = "login"
               /\ UNCHANGED <<outcome, exit_status>>
          ELSE Raise
    /\ UNCHANGED <<env, out, limit, select_status, select_data, num_messages,
                   start, msg_range, fetch_status, data, i, messages,
                   thread_extraction_success, thread_extraction_failed,
                   threads, no_thread, g, multi_message_threads>>

\* lines 41-42: imap.login raises on bad credentials
Login ==
    /\ pc = "login"
    /\ ops' = Append(ops, "login")
    /\ \E accepted \in BOOLEAN :
          IF accepted
          THEN /\ pc' = "select"
               /\ Emit("Logged in", 0)
               /\ UNCHANGED <<outcome, exit_status>>
          ELSE /\ Raise
               /\ UNCHANGED out
    /\ UNCHANGED <<env, limit, select_status, select_data, num_messages,
                   start, msg_range, fetch_status, data, i, messages,
                   thread_extraction_success, thread_extraction_failed,
                   threads, no_thread, g, multi_message_threads>>

\* lines 45-48: the server answers with a status and, when OK, the message
\* count as decimal text
Select ==
    /\ pc = "select"
    /\ ops' = Append(ops, "select")
    /\ \/ /\ Raise
          /\ UNCHANGED <<select_status, select_data, out>>
       \/ \E status \in Statuses, n \in MessageCounts :
             /\ select_status' = status
             /\ select_data' = IF status = "OK" THEN <<DecStr(n)>>
                               ELSE <<<<"x">>>>
             /\ IF NotOK(status)
                THEN /\ Emit("Failed to select", 0)
                     /\ Return(1)
                ELSE /\ pc' = "count"
                     /\ UNCHANGED <<out, outcome, exit_status>>
    /\ UNCHANGED <<env, limit, num_messages, start, msg_range, fetch_status,
                   data, i, messages, thread_extraction_success,
                   thread_extraction_failed, threads, no_thread, g,
                   multi_message_threads>>

\* lines 50-56: empty mailbox: log out and return 0
ReadCount ==
    /\ pc = "count"
    /\ LET n == ParseInt(select_data[1]).val
       IN  /\ num_messages' = n
           /\ IF IsEmptyMailbox(n)
              THEN /\ out' = out \o <<<<"Selected", n>>, <<"No messages in mailbox.", 0>>>>
                   /\ ops' = Append(ops, "logout")
                   /\ Return(0)
              ELSE /\ Emit("Selected", n)
                   /\ pc' = "range"
                   /\ UNCHANGED <<ops, outcome, exit_status>>
    /\ UNCHANGED <<env, limit, select_status, select_data, start, msg_range,
                   fetch_status, data, i, messages, thread_extraction_success,
                   thread_extraction_failed, threads, no_thread, g,
                   multi_message_threads>>

\* lines 59-62
ComputeRange ==
    /\ pc = "range"
    /\ start' = Max(1, num_messages - limit + 1)
    /\ msg_range' = DecStr(start') \o <<":">> \o DecStr(num_messages)
    /\ Emit("Fetching messages", start')
    /\ pc' = "fetch"
    /\ UNCHANGED <<env, outcome, exit_status, ops, limit, select_status,
                   select_data, num_messages, fetch_status, data, i, messages,
                   thread_extraction_success, thread_extraction_failed,
                   threads, no_thread, g, multi_message_threads>>

\* lines 66-78: one FETCH of msg_range; lines 76-81 initialise the parse loop
Fetch ==
    /\ pc = "fetch"
    /\ ops' = Append(ops, "fetch")
    /\ \/ /\ Raise
          /\ UNCHANGED <<fetch_status, data, out>>
       \/ \E status \in Statuses, reply \in Replies :
             /\ fetch_status' = status
             /\ data' = reply
             /\ IF NotOK(status)
                THEN /\ Emit("Fetch failed", 0)
                     /\ Return(1)
                ELSE /\ pc' = "parse"
                     /\ UNCHANGED <<out, outcome, exit_status>>
    /\ i' = 0
    /\ messages' = <<>>
    /\ thread_extraction_success' = 0
    /\ thread_extraction_failed' = 0
    /\ UNCHANGED <<env, limit, select_status, select_data, num_messages,
                   start, msg_range, threads, no_thread, g,
                   multi_message_threads>>

\* mutant: a missing thread id defaults to the key "0"
RecordOf_Sentinel(item) ==
    LET metadata_str == Decode(item.metadata)
        uid_match    == re_search("UID", metadata_str)
        thrid_match  == re_search("X-GM-THRID", metadata_str)
        isBytes      == item.body # NotBytes
    IN  [uid       |-> IF uid_match # NoneVal THEN uid_match ELSE Unknown,
         thread_id |-> IF thrid_match # NoneVal THEN thrid_match ELSE <<"0">>,
         msg_id    |-> re_search("X-GM-MSGID", metadata_str),
         subject   |-> IF isBytes THEN HeaderGet(item.body, "Subject", <<>>) ELSE <<>>,
         from      |-> IF isBytes THEN HeaderGet(item.body, "From", <<>>) ELSE <<>>,
         date      |-> IF isBytes THEN HeaderGet(item.body, "Date", <<>>) ELSE <<>>]

\* lines 85-121: the record built from one (metadata, body) pair
RecordOf(item) ==
    LET metadata_str == Decode(item.metadata)
        uid_match    == re_search("UID", metadata_str)
        isBytes      == item.body # NotBytes
    IN  [uid       |-> IF uid_match # NoneVal THEN uid_match ELSE Unknown,
         thread_id |-> re_search("X-GM-THRID", metadata_str),
         msg_id    |-> re_search("X-GM-MSGID", metadata_str),
         subject   |-> IF isBytes THEN HeaderGet(item.body, "Subject", <<>>) ELSE <<>>,
         from      |-> IF isBytes THEN HeaderGet(item.body, "From", <<>>) ELSE <<>>,
         date      |-> IF isBytes THEN HeaderGet(item.body, "Date", <<>>) ELSE <<>>]

\* lines 82-122: one iteration of the while loop
ParseItem ==
    /\ pc = "parse"
    /\ i < Len(data)
    /\ LET item == data[i + 1]
       IN  IF IsTuple(item)
           THEN LET rec == RecordOf(item)
                IN  /\ messages' = Append(messages, rec)
                    /\ IF Truthy(rec.thread_id)
                       THEN /\ thread_extraction_success' = thread_extraction_success + 1
                            /\ UNCHANGED thread_extraction_failed
                       ELSE /\ thread_extraction_failed' = thread_extraction_failed + 1
                            /\ UNCHANGED thread_extraction_success
           ELSE UNCHANGED <<messages, thread_extraction_success,
                            thread_extraction_failed>>
    /\ i' = i + 1
    /\ UNCHANGED <<env, pc, outcome, exit_status, ops, out, limit,
                   select_status, select_data, num_messages, start, msg_range,
                   fetch_status, data, threads, no_thread, g,
                   multi_message_threads>>

\* lines 124-146: extraction report, then either the warning or the start of
\* the grouping pass
ReportExtraction ==
    /\ pc = "parse"
    /\ ~(i < Len(data))
    /\ IF thread_extraction_success = 0
       THEN /\ out' = out \o <<<<"Successfully extracted", thread_extraction_success>>,
                               <<"Failed to extract", thread_extraction_failed>>,
                               <<"WARNING: No thread IDs were extracted!", 0>>>>
            /\ pc' = "logout"
       ELSE /\ out' = out \o <<<<"Successfully extracted", thread_extraction_success>>,
                               <<"Failed to extract", thread_extraction_failed>>>>
            /\ pc' = "group"
    /\ threads' = <<>>
    /\ no_thread' = <<>>
    /\ g' = 0
    /\ UNCHANGED <<env, outcome, exit_status, ops, limit, select_status,
                   select_data, num_messages, start, msg_range, fetch_status,
                   data, i, messages, thread_extraction_success,
                   thread_extraction_failed, multi_message_threads>>

HasKey(buckets, tid) == \E k \in 1..Len(buckets) : buckets[k].tid = tid

\* mutant: threads[tid] = [msg] replaces the bucket instead of appending
BucketAppend_Overwrite(buckets, tid, msg) ==
    IF HasKey(buckets, tid)
    THEN [k \in 1..Len(buckets) |->
             IF buckets[k].tid = tid
             THEN [tid |-> tid, msgs |-> <<msg>>]
             ELSE buckets[k]]
    ELSE Append(buckets, [tid |-> tid, msgs |-> <<msg>>])

\* threads[tid].append(msg) on a defaultdict(list); insertion order is kept
BucketAppend(buckets, tid, msg) ==
    IF HasKey(buckets, tid)
    THEN [k \in 1..Len(buckets) |->
             IF buckets[k].tid = tid
             THEN [tid |-> tid, msgs |-> Append(buckets[k].msgs, msg)]
             ELSE buckets[k]]
    ELSE Append(buckets, [tid |-> tid, msgs |-> <<msg>>])

\* lines 148-152: one iteration of the grouping loop
GroupStep ==
    /\ pc = "group"
    /\ g < Len(messages)
    /\ LET msg == messages[g + 1]
       IN  IF Truthy(msg.thread_id)
           THEN /\ threads' = BucketAppend(threads, msg.thread_id, msg)
                /\ UNCHANGED no_thread
           ELSE /\ no_thread' = Append(no_thread, msg)
                /\ UNCHANGED threads
    /\ g' = g + 1
    /\ UNCHANGED <<env, pc, outcome, exit_status, ops, out, limit,
                   select_status, select_data, num_messages, start, msg_range,
                   fetch_status, data, i, messages, thread_extraction_success,
                   thread_extraction_failed, multi_message_threads>>

\* mutant: len(msgs) >= 1
IsMulti_NonEmpty(bucket) == Len(bucket.msgs) >= 1

\* line 155: len(msgs) > 1
IsMulti(bucket) == Len(bucket.msgs) > 1

\* lines 155-193
ReportThreads ==
    /\ pc = "group"
    /\ ~(g < Len(messages))
    /\ multi_message_threads' = SelectSeq(threads, IsMulti)
    /\ out' = out \o <<<<"Total unique threads", Len(threads)>>,
                       <<"Threads with multiple messages", Len(multi_message_threads')>>,
                       <<"Messages without thread ID", Len(no_thread)>>>>
    /\ pc' = "logout"
    /\ UNCHANGED <<env, outcome, exit_status, ops, limit, select_status,
                   select_data, num_messages, start, msg_range, fetch_status,
                   data, i, messages, thread_extraction_success,
                   thread_extraction_failed, threads, no_thread, g>>

\* mutant: the final imap.logout() is missing
Logout_NoCall ==
    /\ pc = "logout"
    /\ Emit("Done.", 0)
    /\ Return(0)
    /\ UNCHANGED <<env, ops, limit, select_status, select_data, num_messages,
                   start, msg_range, fetch_status, data, i, messages,
                   thread_extraction_success, thread_extraction_failed,
                   threads, no_thread, g, multi_message_threads>>

\* lines 195-198
Logout ==
    /\ pc = "logout"
    /\ ops' = Append(ops, "logout")
    /\ Emit("Done.", 0)
    /\ Return(0)
    /\ UNCHANGED <<env, limit, select_status, select_data, num_messages,
                   start, msg_range, fetch_status, data, i, messages,
                   thread_extraction_success, thread_extraction_failed,
                   threads, no_thread, g, multi_message_threads>>

Next == \/ ReadConfig
        \/ CheckCredentials
        \/ Connect
        \/ Login
        \/ Select
        \/ ReadCount
        \/ ComputeRange
        \/ Fetch
        \/ ParseItem
        \/ ReportExtraction
        \/ GroupStep
        \/ ReportThreads
        \/ Logout

Spec == Init /\ [][Next]_vars

\* ------------------------------------------------ the parser on any metadata
\* The state right after a successful FETCH of a one-message mailbox whose
\* reply is a single (metadata, body) pair with arbitrary metadata text.
InitParse ==
    /\ env = [IMAP_USERNAME |-> <<"u">>, IMAP_PASSWORD |-> <<"p">>,
              LIMIT |-> NoneVal]
    /\ pc = "parse"
    /\ outcome = "running"
    /\ exit_status = -1
    /\ ops = <<"connect", "login", "select", "fetch">>
    /\ out = <<<<"Logged in", 0>>, <<"Selected", 1>>, <<"Fetching messages", 1>>>>
    /\ limit = 50
    /\ select_status = "OK"
    /\ select_data = <<DecStr(1)>>
    /\ num_messages = 1
    /\ start = 1
    /\ msg_range = <<"1", ":", "1">>
    /\ fetch_status = "OK"
    /\ \E m \in AllMeta : data = <<Unit(m, NotBytes)>>
    /\ i = 0
    /\ messages = <<>>
    /\ thread_extraction_success = 0
    /\ thread_extraction_failed = 0
    /\ threads = <<>>
    /\ no_thread = <<>>
    /\ g = 0
    /\ multi_message_threads = <<>>

NextParse == ParseItem

SpecParse == InitParse /\ [][NextParse]_vars

\* ------------------------------------------------------------- properties
Done == pc = "done"
ReturnedOK == Done /\ outcome = "returned" /\ exit_status = 0
Reported(label, value) == \E k \in 1..Len(out) : out[k] = <<label, value>>
Mentions(label) == \E k \in 1..Len(out) : out[k][1] = label
Called(op) == \E k \in 1..Len(ops) : ops[k] = op

\* the (metadata, body) pairs among the first n items of the reply, in order
RECURSIVE UnitsOf(_, _)
UnitsOf(d, n) == IF n = 0 THEN <<>>
                 ELSE IF d[n].tuple THEN Append(UnitsOf(d, n - 1), d[n])
                 ELSE UnitsOf(d, n - 1)

Present(v) == v # NoneVal

\* indices of the first n records whose thread id is tid
SameThread(n, tid) == {k \in 1..n : messages[k].thread_id = tid}
\* indices of the first n records without a thread id
Threadless(n) == {k \in 1..n : ~Present(messages[k].thread_id)}

\* the subsequence of the first n records selected by the index set S
RECURSIVE Pick(_, _)
Pick(n, S) == IF n = 0 THEN <<>>
              ELSE IF n \in S THEN Append(Pick(n - 1, S), messages[n])
              ELSE Pick(n - 1, S)

RECURSIVE SumSizes(_, _)
SumSizes(buckets, n) == IF n = 0 THEN 0
                        ELSE Len(buckets[n].msgs) + SumSizes(buckets, n - 1)

\* C1: a reply with k (metadata, body) pairs, wherever they stand among the
\* other items, gives exactly k records, the j-th one built from the j-th
\* pair; items that are not pairs give no record.
C1_OneRecordPerUnit ==
    fetch_status = "OK" =>
        LET units == UnitsOf(data, i)
        IN  /\ Len(messages) = Len(units)
            /\ \A j \in 1..Len(units) : messages[j] = RecordOf(units[j])
            /\ (pc # "parse" => i = Len(data))

C1_Witness ==
    /\ ReturnedOK
    /\ Len(data) = 3
    /\ ~data[1].tuple /\ data[2].tuple /\ data[3].tuple
    /\ data[2] # data[3]
    /\ Len(messages) = 2

C3_RangeValid ==
    (pc \in {"fetch", "parse", "group", "logout"} \/ Called("fetch")) =>
        /\ start = Max(1, num_messages - limit + 1)
        /\ msg_range = DecStr(start) \o <<":">> \o DecStr(num_messages)
        /\ 1 <= start
        /\ start <= num_messages

\* C4: with the username or the password missing or empty the run ends with
\* a non-zero status and performs no network operation.
C4_NoNetworkWithoutCredentials ==
    (~Present(env.IMAP_USERNAME) \/ env.IMAP_USERNAME = <<>>
        \/ ~Present(env.IMAP_PASSWORD) \/ env.IMAP_PASSWORD = <<>>) =>
        /\ ops = <<>>
        /\ exit_status # 0
        /\ (Done => exit_status = 1)
        /\ pc \in {"config", "credentials", "done"}

C4_Witness ==
    /\ Done
    /\ outcome = "returned"
    /\ exit_status = 1
    /\ env.IMAP_USERNAME = <<>>
    /\ env.IMAP_PASSWORD = <<"p">>

\* C5: a non-OK status from select or fetch ends the run at once with a
\* non-zero status: no fetch after a failed select, no record and no
\* grouping report after a failed fetch, no logout in either case; a run
\* that returns after calling logout returns 0.
C5_ProtocolErrorAborts ==
    /\ select_status = "NO" =>
          /\ Done /\ outcome = "returned" /\ exit_status = 1
          /\ ~Called("fetch")
          /\ ~Called("logout")
    /\ fetch_status = "NO" =>
          /\ Done /\ outcome = "returned" /\ exit_status = 1
          /\ messages = <<>>
          /\ i = 0
          /\ ~Mentions("Successfully extracted")
          /\ ~Mentions("Total unique threads")
          /\ ~Called("logout")
    /\ (outcome = "returned" /\ Called("logout")) => exit_status = 0

C5_Witness ==
    /\ Done
    /\ fetch_status = "NO"
    /\ \E k \in 1..Len(data) : data[k].tuple
    /\ exit_status = 1

\* C6: after a successful select that reports 0 messages no FETCH is issued
\* and the run logs out and returns 0, whatever the limit.
C6_EmptyMailbox ==
    (select_status = "OK" /\ select_data = <<<<"0">>>>) =>
        /\ ~Called("fetch")
        /\ \/ pc = "count"
           \/ /\ ReturnedOK
              /\ ops = <<"connect", "login", "select", "logout">>

C6_Witness ==
    /\ ReturnedOK
    /\ select_data = <<<<"0">>>>
    /\ limit < 0
    /\ Called("logout")


\* C7: a bucket is among the reported multi-message threads iff it holds
\* more than one record; the report gives the number of such buckets and the
\* number of distinct thread ids; thread ids [A, A, B] give 2 and 1.
PresentIds == {messages[k].thread_id : k \in {j \in 1..Len(messages) :
                                                Present(messages[j].thread_id)}}
LargeBuckets == {b \in 1..Len(threads) : Len(threads[b].msgs) >= 2}

C7_MultiMessageThreads ==
    (fetch_status = "OK" /\ pc \in {"logout", "done"}
        /\ thread_extraction_success > 0) =>
        /\ \A b \in 1..Len(threads) :
              (b \in LargeBuckets) <=>
                 (\E m \in 1..Len(multi_message_threads) :
                     multi_message_threads[m] = threads[b])
        /\ Len(multi_message_threads) = Cardinality(LargeBuckets)
        /\ Reported("Threads with multiple messages", Cardinality(LargeBuckets))
        /\ Reported("Total unique threads", Cardinality(PresentIds))
        /\ (/\ Len(messages) = 3
            /\ messages[1].thread_id = messages[2].thread_id
            /\ messages[3].thread_id # messages[1].thread_id
            /\ Present(messages[1].thread_id)
            /\ Present(messages[3].thread_id)) =>
               /\ Reported("Total unique threads", 2)
               /\ Reported("Threads with multiple messages", 1)
               /\ ~(\E v \in 0..Len(messages) : v # 2 /\ Reported("Total unique threads", v))
               /\ ~(\E v \in 0..Len(messages) : v # 1
                       /\ Reported("Threads with multiple messages", v))

C7_Witness ==
    /\ ReturnedOK
    /\ Len(messages) = 3
    /\ messages[1].thread_id = <<"1">>
    /\ messages[2].thread_id = <<"1">>
    /\ messages[3].thread_id = <<"2">>
    /\ Reported("Total unique threads", 2)
    /\ Reported("Threads with multiple messages", 1)

\* the text s holds, at position p, the key followed by one space and the
\* maximal digit run r
TokenAt(key, s, p, r) ==
    /\ r # <<>>
    /\ p + 1 + Len(r) <= Len(s)
    /\ s[p] = key
    /\ s[p + 1] = " "
    /\ \A k \in 1..Len(r) : s[p + 1 + k] = r[k] /\ IsDigit(r[k])
    /\ (p + 2 + Len(r) <= Len(s) => ~IsDigit(s[p + 2 + Len(r)]))

Runs(s) == {SubSeq(s, a, b) : a \in 1..Len(s), b \in 1..Len(s)}
HasToken(key, s) == \E p \in 1..Len(s), r \in Runs(s) : TokenAt(key, s, p, r)
\* r is the digit run of the first token of the key in s
FirstToken(key, s, r) ==
    \E p \in 1..Len(s) :
        /\ TokenAt(key, s, p, r)
        /\ \A q \in 1..(p - 1), r2 \in Runs(s) : ~TokenAt(key, s, q, r2)

\* C8: a pair whose metadata has no X-GM-THRID token gives a record without
\* thread id; such a record is counted as failed, never as extracted, and is
\* in no bucket; no bucket is keyed by anything but a thread id that was
\* read from a record.
C8_MissingThreadId ==
    fetch_status = "OK" =>
        LET units == UnitsOf(data, i)
        IN  /\ \A j \in 1..Len(units) :
                  (j <= Len(messages) /\ ~HasToken("X-GM-THRID", Decode(units[j].metadata)))
                      => messages[j].thread_id = NoneVal
            /\ thread_extraction_failed = Cardinality(Threadless(Len(messages)))
            /\ thread_extraction_success =
                  Len(messages) - Cardinality(Threadless(Len(messages)))
            /\ \A b \in 1..Len(threads) :
                  /\ AllDigits(threads[b].tid)
                  /\ \E j \in 1..Len(units) :
                        /\ HasToken("X-GM-THRID", Decode(units[j].metadata))
                        /\ FirstToken("X-GM-THRID", Decode(units[j].metadata), threads[b].tid)
                  /\ \A m \in 1..Len(threads[b].msgs) :
                        Present(threads[b].msgs[m].thread_id)

C8_Witness ==
    /\ ReturnedOK
    /\ Len(threads) >= 1
    /\ thread_extraction_failed >= 1
    /\ \E k \in 1..Len(data) :
          /\ data[k].tuple
          /\ ~HasToken("X-GM-THRID", Decode(data[k].metadata))
          /\ \E p \in 1..Len(data[k].metadata) : data[k].metadata[p] = "X-GM-THRID"

Parsed == pc = "parse" /\ i = 1 /\ Len(messages) = 1
ParsedText == Decode(data[1].metadata)

FieldIsFirstToken(key, field) ==
    HasToken(key, ParsedText) => FirstToken(key, ParsedText, field)

\* C9 as stated: for each of UID, X-GM-THRID and X-GM-MSGID the field is
\* empty or absent when the token is missing, and the digit run of the first
\* token otherwise.
C9_AbsentIsEmpty ==
    Parsed =>
        /\ ~HasToken("UID", ParsedText) => messages[1].uid \in {NoneVal, <<>>}
        /\ ~HasToken("X-GM-THRID", ParsedText) => messages[1].thread_id \in {NoneVal, <<>>}
        /\ ~HasToken("X-GM-MSGID", ParsedText) => messages[1].msg_id \in {NoneVal, <<>>}
        /\ FieldIsFirstToken("UID", messages[1].uid)
        /\ FieldIsFirstToken("X-GM-THRID", messages[1].thread_id)
        /\ FieldIsFirstToken("X-GM-MSGID", messages[1].msg_id)

\* C9 amended: thread_id and msg_id are absent (None) when their token is
\* missing, uid is the placeholder "?" when the UID token is missing; a
\* field whose token is present holds the digit run of the first token.
C9_AbsentIsNoneOrPlaceholder ==
    Parsed =>
        /\ ~HasToken("UID", ParsedText) => messages[1].uid = Unknown
        /\ ~HasToken("X-GM-THRID", ParsedText) => messages[1].thread_id = NoneVal
        /\ ~HasToken("X-GM-MSGID", ParsedText) => messages[1].msg_id = NoneVal
        /\ FieldIsFirstToken("UID", messages[1].uid)
        /\ FieldIsFirstToken("X-GM-THRID", messages[1].thread_id)
        /\ FieldIsFirstToken("X-GM-MSGID", messages[1].msg_id)

C9_Witness ==
    /\ Parsed
    /\ data[1].metadata = <<"UID", " ", "1", "UID", " ", "2">>
    /\ messages[1].uid = <<"1">>
    /\ messages[1].thread_id = NoneVal
    /\ messages[1].msg_id = NoneVal

IsNotConnect(op) == op # "connect"

\* C10: a run that completes normally on a non-empty mailbox has performed
\* login, select, fetch and logout exactly once each, in this order, with
\* logout last.
C10_OneRoundTripEach ==
    (ReturnedOK /\ num_messages >= 1) =>
        /\ SelectSeq(ops, IsNotConnect) = <<"login", "select", "fetch", "logout">>
        /\ ops[Len(ops)] = "logout"
        /\ Cardinality({k \in 1..Len(ops) : ops[k] = "fetch"}) = 1

C10_Witness ==
    /\ ReturnedOK
    /\ num_messages = 200
    /\ start = 151
    /\ Len(messages) >= 1

TypeOK == /\ pc \in {"config", "credentials", "connect", "login", "select",
                     "count", "range", "fetch", "parse", "group", "logout", "done"}
          /\ outcome \in {"running", "returned", "raised"}
          /\ exit_status \in {-1, 0, 1}
====
